---- MODULE Spec2Model ----
(***************************************************************************)
(* compuSUAVE_Professional::Integral<T>: a wrapper around one fundamental  *)
(* integral value m_value.  The module models the string constructor, the  *)
(* radix conversion, the comparison operators, min/max and the increment   *)
(* and decrement operators.  Text is a sequence of one-character strings.  *)
(***************************************************************************)
EXTENDS Integers, Sequences, FiniteSets, TLC

\* ------------------------------------------------------------------------
\* Bounds of the model
\* ------------------------------------------------------------------------

\* width in bits of the narrow instantiations of T used for exhaustive runs
NarrowBits == 4

\* width in bits of the wide instantiation of T used for the worked examples
WideBits == 16

\* width in bits of std::size_t, the type of the radix parameter
SizeBits == 20

\* longest text enumerated over the whole alphabet
MaxLen == 3

\* longest digit body enumerated after a binary prefix
MaxBinLen == 5

\* number of ints the result stack can hold before allocation fails
MaxStack == 24

\* largest radix argument enumerated
MaxRadix == 18

\* ------------------------------------------------------------------------
\* The template parameter T and its numeric_limits
\* ------------------------------------------------------------------------

RECURSIVE Pow(_, _)
Pow(base, n) == IF n = 0 THEN 1 ELSE base * Pow(base, n - 1)

\* std::numeric_limits<T>::digits: the value bits of T
Digits(t) == IF t.is_signed THEN t.bits - 1 ELSE t.bits

\* Integral<T>::max()
TMax(t) == Pow(2, Digits(t)) - 1

\* Integral<T>::min()
TMin(t) == IF t.is_signed THEN 0 - Pow(2, Digits(t)) ELSE 0

TValues(t) == TMin(t) .. TMax(t)

\* static_cast<T>(x): conversion of an integer to T, modulo 2^bits
ToT(t, x) ==
    LET m == Pow(2, t.bits)
        r == x % m
    IN  IF t.is_signed /\ r > TMax(t) THEN r - m ELSE r

\* conversion of a value of T to std::size_t in a mixed expression
ToSize(x) == x % Pow(2, SizeBits)

NarrowTypes == { [is_signed |-> s, bits |-> NarrowBits] : s \in BOOLEAN }

WideType == [is_signed |-> TRUE, bits |-> WideBits]

\* ------------------------------------------------------------------------
\* Text: std::string as a sequence of characters
\* ------------------------------------------------------------------------

DigitChars ==
    <<"0", "1", "2", "3", "4", "5", "6", "7", "8", "9",
      "a", "b", "c", "d", "e", "f">>

UpperHex == <<"A", "B", "C", "D", "E", "F">>

\* numeric value of a character as a digit; 16 when it is a digit of no base
DigitVal(c) ==
    IF \E i \in 1..16 : DigitChars[i] = c
    THEN (CHOOSE i \in 1..16 : DigitChars[i] = c) - 1
    ELSE IF \E i \in 1..6 : UpperHex[i] = c
         THEN (CHOOSE i \in 1..6 : UpperHex[i] = c) + 9
         ELSE 16

\* value.find(prefix) == 0
StartsWith(s, prefix) ==
    /\ Len(s) >= Len(prefix)
    /\ SubSeq(s, 1, Len(prefix)) = prefix

\* text of a natural number in a base, as operator<< writes it ("0" for 0)
RECURSIVE NatText(_, _)
NatText(n, base) ==
    IF n < base THEN <<DigitChars[n + 1]>>
    ELSE NatText(n \div base, base) \o <<DigitChars[(n % base) + 1]>>

\* std::to_string(m_value), also operator<< of an int in the default base
to_string(v) == IF v < 0 THEN <<"-">> \o NatText(0 - v, 10) ELSE NatText(v, 10)

\* result_buffer << std::hex / std::oct << m_value: a negative value of a
\* signed T is written as the unsigned value of its representation
BaseText(t, v, base) == NatText(v % Pow(2, t.bits), base)

\* ------------------------------------------------------------------------
\* Library conversions used by the string constructor
\* ------------------------------------------------------------------------

\* value of a run of binary characters, most significant first
RECURSIVE BitsValue(_)
BitsValue(s) ==
    IF s = <<>> THEN 0
    ELSE 2 * BitsValue(SubSeq(s, 1, Len(s) - 1))
         + (IF s[Len(s)] = "1" THEN 1 ELSE 0)

\* std::bitset<digits> bits{value, 2} followed by bits.to_ullong(): every
\* character from position 2 on must be '0' or '1', else invalid_argument
\* is thrown; the first min(digits, length) characters initialise the bits
BitsetCtor(t, s) ==
    LET body == SubSeq(s, 3, Len(s))
        used == IF Len(body) < Digits(t) THEN Len(body) ELSE Digits(t)
    IN  IF \E i \in 1..Len(body) : body[i] \notin {"0", "1"}
        THEN [thrown |-> TRUE, val |-> 0]
        ELSE [thrown |-> FALSE, val |-> BitsValue(SubSeq(body, 1, used))]

\* variant: the stream does not skip leading whitespace
SkipWs_none(s, i) == i

\* position of the first character at or after i that is not a space
RECURSIVE SkipWs(_, _)
SkipWs(s, i) ==
    IF i <= Len(s) /\ s[i] = " " THEN SkipWs(s, i + 1) ELSE i

\* accumulate the digits of the base from position i: <<magnitude, count>>
RECURSIVE Accumulate(_, _, _, _, _)
Accumulate(s, i, base, acc, n) ==
    IF i <= Len(s) /\ DigitVal(s[i]) < base
    THEN Accumulate(s, i + 1, base, acc * base + DigitVal(s[i]), n + 1)
    ELSE <<acc, n>>

\* converter >> m_value with the stream's basefield set to base
\* (std::num_get): skip whitespace, optional sign, optional 0x/0X in base
\* 16, digits of the base up to the first other character; no digits
\* stores 0, a value out of range stores the nearest bound of T
NumGet(t, base, s) ==
    LET i0  == SkipWs(s, 1)
        sgn == i0 <= Len(s) /\ s[i0] \in {"+", "-"}
        neg == sgn /\ s[i0] = "-"
        i1  == IF sgn THEN i0 + 1 ELSE i0
        pfx == /\ base = 16
               /\ i1 + 1 <= Len(s)
               /\ s[i1] = "0"
               /\ s[i1 + 1] \in {"x", "X"}
        i2  == IF pfx THEN i1 + 2 ELSE i1
        acc == Accumulate(s, i2, base, 0, 0)
        mag == acc[1]
    IN  IF acc[2] = 0 THEN 0
        ELSE IF t.is_signed
             THEN IF neg
                  THEN IF mag > 0 - TMin(t) THEN TMin(t) ELSE 0 - mag
                  ELSE IF mag > TMax(t) THEN TMax(t) ELSE mag
             ELSE IF mag > TMax(t) THEN TMax(t)
                  ELSE IF neg THEN ToT(t, 0 - mag) ELSE mag

\* the "Check for binary sequence" condition of the string constructor
IsBinarySequence(s) ==
    StartsWith(s, <<"0", "b">>) \/ StartsWith(s, <<"0", "B">>)

\* variant: the hexadecimal prefix accepted in either case
IsHexSequence_anycase(s) ==
    StartsWith(s, <<"0", "x">>) \/ StartsWith(s, <<"0", "X">>)

\* the "Check for hexidecimal sequence" condition
IsHexSequence(s) == StartsWith(s, <<"0", "x">>)

\* the "Check for octal sequence" condition
IsOctalSequence(s) == StartsWith(s, <<"0">>)

\* variant: no handler, invalid_argument leaves the noexcept constructor
BinaryBranch_nocatch(t, s) ==
    LET bits == BitsetCtor(t, s)
    IN  IF bits.thrown
        THEN [m_value |-> 0, escaped |-> TRUE]
        ELSE [m_value |-> ToT(t, bits.val), escaped |-> FALSE]

\* the try block of the binary branch: invalid_argument is caught and
\* m_value keeps its zero initialisation; nothing escapes the constructor
BinaryBranch(t, s) ==
    LET bits == BitsetCtor(t, s)
    IN  IF bits.thrown
        THEN [m_value |-> 0, escaped |-> FALSE]
        ELSE [m_value |-> ToT(t, bits.val), escaped |-> FALSE]

\* Integral(const std::string& value) noexcept: the value stored in m_value
\* and whether an exception escaped the noexcept constructor
StringCtor(t, s) ==
    IF IsBinarySequence(s) THEN BinaryBranch(t, s)
    ELSE IF IsHexSequence(s)
         THEN [m_value |-> NumGet(t, 16, s), escaped |-> FALSE]
         ELSE IF IsOctalSequence(s)
              THEN [m_value |-> NumGet(t, 8, s), escaped |-> FALSE]
              ELSE [m_value |-> NumGet(t, 10, s), escaped |-> FALSE]

\* ------------------------------------------------------------------------
\* Comparison operators, min and max, on the encapsulated values
\* ------------------------------------------------------------------------

operator_eq(lhs, rhs) == lhs = rhs

operator_ne(lhs, rhs) == ~operator_eq(lhs, rhs)

operator_lt(lhs, rhs) == lhs < rhs

\* variant: a direct reverse comparison
operator_gt_strict(lhs, rhs) == lhs > rhs

operator_gt(lhs, rhs) == ~operator_lt(lhs, rhs)

operator_le(lhs, rhs) == operator_lt(lhs, rhs) \/ operator_eq(lhs, rhs)

operator_ge(lhs, rhs) == ~operator_le(lhs, rhs)

\* min(lhs, rhs): the operand the returned reference is bound to
min(mv, lhs, rhs) == IF operator_lt(mv[lhs], mv[rhs]) THEN lhs ELSE rhs

\* variant: a tie selects the right-hand operand
max_tie_right(mv, lhs, rhs) == IF mv[lhs] > mv[rhs] THEN lhs ELSE rhs

\* max(lhs, rhs): the operand the returned reference is bound to
max(mv, lhs, rhs) == IF operator_gt(mv[lhs], mv[rhs]) THEN lhs ELSE rhs

\* ------------------------------------------------------------------------
\* Increment and decrement of the native value
\* ------------------------------------------------------------------------

\* ++m_value / m_value++: the values m_value can hold afterwards.  Unsigned
\* T wraps; overflow of a signed T is undefined, any value may result
Incremented(t, v) ==
    IF v < TMax(t) THEN {v + 1}
    ELSE IF t.is_signed THEN TValues(t) ELSE {TMin(t)}

\* --m_value / m_value--
Decremented(t, v) ==
    IF v > TMin(t) THEN {v - 1}
    ELSE IF t.is_signed THEN TValues(t) ELSE {TMax(t)}

\* variant: the returned object is built after the change
PostfixOperand_after(before, after) == after

\* Integral<T>{m_value++} and Integral<T>{m_value--}: the value the
\* returned object is constructed from
PostfixOperand(before, after) == before

\* ------------------------------------------------------------------------
\* State
\* ------------------------------------------------------------------------

VARIABLES
    T,             \* the template argument: [is_signed, bits]
    m_value,       \* m_value of each object
    str,           \* the text last handed to a string constructor
    pc,            \* "idle", "divide" (inside toRadix's loop), "terminated"
    op,            \* the operation last called and its operands
    ret,           \* what that operation returned
    old,           \* m_value of each object when that operation was called
    radix,         \* toRadix: the radix argument
    value,         \* toRadix: the local working copy of m_value
    result_stack,  \* toRadix: the local std::stack<int>, top last
    result,        \* toRadix: the local std::string result
    cin,           \* the characters not yet read from the input stream
    consumed,      \* the characters the last extraction took off the stream
    origin         \* how one object was last produced from the other

vars ==
    <<T, m_value, str, pc, op, ret, old, radix, value, result_stack, result,
      cin, consumed, origin>>

Objects == {"a", "b"}

NoOp == [name |-> "none", lhs |-> "a", rhs |-> "a"]

NoRet == [kind |-> "none", obj |-> "a", val |-> 0, flag |-> FALSE, text |-> <<>>]

\* a reference to one of the objects
RetRef(x) == [NoRet EXCEPT !.kind = "ref", !.obj = x]

\* a new object holding v
RetObject(v) == [NoRet EXCEPT !.kind = "object", !.val = v]

RetBool(f) == [NoRet EXCEPT !.kind = "bool", !.flag = f]

\* a const char* and the characters the caller reads through it
RetCString(s) == [NoRet EXCEPT !.kind = "cstring", !.text = s]

\* what a read through a pointer into a destroyed std::string may yield
\* besides the characters that were there
Garbage == <<"?">>

toRadixLocals == <<radix, value, result_stack, result>>

\* the input stream and the record of copies
extra == <<cin, consumed, origin>>

InitCommon ==
    /\ m_value = [o \in Objects |-> 0]
    /\ str = <<>>
    /\ pc = "idle"
    /\ op = NoOp
    /\ ret = NoRet
    /\ old = [o \in Objects |-> 0]
    /\ radix = 0
    /\ value = 0
    /\ result_stack = <<>>
    /\ result = <<>>
    /\ cin = <<>>
    /\ consumed = <<>>
    /\ origin = "none"

\* ------------------------------------------------------------------------
\* Operations on objects: constructors, ++, --, comparisons, min, max
\* ------------------------------------------------------------------------

\* Integral(const T value): x is (re)constructed holding v
ValueCtor(x, v) ==
    /\ pc = "idle"
    /\ old' = m_value
    /\ m_value' = [m_value EXCEPT ![x] = v]
    /\ op' = [name |-> "ValueCtor", lhs |-> x, rhs |-> x]
    /\ ret' = NoRet
    /\ UNCHANGED <<T, str, pc, toRadixLocals, extra>>

\* Integral<T>& operator ++()
PreIncrement(x) ==
    /\ pc = "idle"
    /\ old' = m_value
    /\ \E v \in Incremented(T, m_value[x]) :
           m_value' = [m_value EXCEPT ![x] = v]
    /\ op' = [name |-> "PreIncrement", lhs |-> x, rhs |-> x]
    /\ ret' = RetRef(x)
    /\ UNCHANGED <<T, str, pc, toRadixLocals, extra>>

\* Integral<T> operator ++(int)
PostIncrement(x) ==
    /\ pc = "idle"
    /\ old' = m_value
    /\ \E v \in Incremented(T, m_value[x]) :
           /\ m_value' = [m_value EXCEPT ![x] = v]
           /\ ret' = RetObject(PostfixOperand(m_value[x], v))
    /\ op' = [name |-> "PostIncrement", lhs |-> x, rhs |-> x]
    /\ UNCHANGED <<T, str, pc, toRadixLocals, extra>>

\* Integral<T>& operator --()
PreDecrement(x) ==
    /\ pc = "idle"
    /\ old' = m_value
    /\ \E v \in Decremented(T, m_value[x]) :
           m_value' = [m_value EXCEPT ![x] = v]
    /\ op' = [name |-> "PreDecrement", lhs |-> x, rhs |-> x]
    /\ ret' = RetRef(x)
    /\ UNCHANGED <<T, str, pc, toRadixLocals, extra>>

\* Integral<T> operator --(int)
PostDecrement(x) ==
    /\ pc = "idle"
    /\ old' = m_value
    /\ \E v \in Decremented(T, m_value[x]) :
           /\ m_value' = [m_value EXCEPT ![x] = v]
           /\ ret' = RetObject(PostfixOperand(m_value[x], v))
    /\ op' = [name |-> "PostDecrement", lhs |-> x, rhs |-> x]
    /\ UNCHANGED <<T, str, pc, toRadixLocals, extra>>

\* a call of a comparison operator: no object changes, a bool is returned
Comparison(name, x, y, outcome) ==
    /\ pc = "idle"
    /\ old' = m_value
    /\ op' = [name |-> name, lhs |-> x, rhs |-> y]
    /\ ret' = RetBool(outcome)
    /\ UNCHANGED <<T, m_value, str, pc, toRadixLocals, extra>>

Equal(x, y) == Comparison("==", x, y, operator_eq(m_value[x], m_value[y]))

NotEqual(x, y) == Comparison("!=", x, y, operator_ne(m_value[x], m_value[y]))

Less(x, y) == Comparison("<", x, y, operator_lt(m_value[x], m_value[y]))

Greater(x, y) == Comparison(">", x, y, operator_gt(m_value[x], m_value[y]))

LessEqual(x, y) == Comparison("<=", x, y, operator_le(m_value[x], m_value[y]))

GreaterEqual(x, y) ==
    Comparison(">=", x, y, operator_ge(m_value[x], m_value[y]))

\* friend Integral<T>& min(lhs, rhs)
Min(x, y) ==
    /\ pc = "idle"
    /\ old' = m_value
    /\ op' = [name |-> "min", lhs |-> x, rhs |-> y]
    /\ ret' = RetRef(min(m_value, x, y))
    /\ UNCHANGED <<T, m_value, str, pc, toRadixLocals, extra>>

\* friend Integral<T>& max(lhs, rhs)
Max(x, y) ==
    /\ pc = "idle"
    /\ old' = m_value
    /\ op' = [name |-> "max", lhs |-> x, rhs |-> y]
    /\ ret' = RetRef(max(m_value, x, y))
    /\ UNCHANGED <<T, m_value, str, pc, toRadixLocals, extra>>

\* two default-constructed objects of a narrow T
Init ==
    /\ T \in NarrowTypes
    /\ InitCommon

Next ==
    \/ \E x \in Objects : \E v \in TValues(T) : ValueCtor(x, v)
    \/ \E x \in Objects : PreIncrement(x)
    \/ \E x \in Objects : PostIncrement(x)
    \/ \E x \in Objects : PreDecrement(x)
    \/ \E x \in Objects : PostDecrement(x)
    \/ \E x \in Objects : \E y \in Objects : Equal(x, y)
    \/ \E x \in Objects : \E y \in Objects : NotEqual(x, y)
    \/ \E x \in Objects : \E y \in Objects : Less(x, y)
    \/ \E x \in Objects : \E y \in Objects : Greater(x, y)
    \/ \E x \in Objects : \E y \in Objects : LessEqual(x, y)
    \/ \E x \in Objects : \E y \in Objects : GreaterEqual(x, y)
    \/ \E x \in Objects : \E y \in Objects : Min(x, y)
    \/ \E x \in Objects : \E y \in Objects : Max(x, y)

Spec == Init /\ [][Next]_vars

\* ------------------------------------------------------------------------
\* Properties of the object operations (specification Spec)
\* ------------------------------------------------------------------------

TypeOK ==
    /\ T \in NarrowTypes \cup {WideType}
    /\ \A o \in Objects : m_value[o] \in TValues(T)
    /\ pc \in {"idle", "divide", "terminated"}

C8_GreaterEqual ==
    op.name = ">=" =>
        /\ ret.kind = "bool"
        /\ ret.flag = (m_value[op.lhs] >= m_value[op.rhs])

\* C9: min and max return one of the two operands themselves: min returns
\* lhs when lhs is strictly less and rhs otherwise, max returns rhs when
\* lhs is strictly less and lhs otherwise; no object is changed or copied.
C9_MinMaxSelect ==
    /\ op.name = "min" =>
           /\ ret.kind = "ref"
           /\ ret.obj = (IF m_value[op.lhs] < m_value[op.rhs]
                         THEN op.lhs ELSE op.rhs)
           /\ m_value = old
    /\ op.name = "max" =>
           /\ ret.kind = "ref"
           /\ ret.obj = (IF m_value[op.lhs] < m_value[op.rhs]
                         THEN op.rhs ELSE op.lhs)
           /\ m_value = old

\* max was called on two distinct objects of equal value and chose the left
C9_Witness ==
    /\ op.name = "max"
    /\ op.lhs = "a"
    /\ op.rhs = "b"
    /\ m_value["a"] = m_value["b"]
    /\ ret.kind = "ref"
    /\ ret.obj = "a"

\* C10: prefix ++ and -- change the value by +1 and -1 and return the
\* object itself; postfix ++ and -- change the value by +1 and -1 and
\* return a new object holding the value before the change.  The change is
\* the exact +1 or -1 whenever that value is representable in T; the other
\* object is never touched.
C10_IncrementDecrement ==
    LET x     == op.lhs
        other == CHOOSE o \in Objects : o # x
    IN  /\ op.name \in {"PreIncrement", "PostIncrement",
                        "PreDecrement", "PostDecrement"} =>
               m_value[other] = old[other]
        /\ op.name \in {"PreIncrement", "PostIncrement"} =>
               (old[x] < TMax(T) => m_value[x] = old[x] + 1)
        /\ op.name \in {"PreDecrement", "PostDecrement"} =>
               (old[x] > TMin(T) => m_value[x] = old[x] - 1)
        /\ op.name \in {"PreIncrement", "PreDecrement"} =>
               /\ ret.kind = "ref"
               /\ ret.obj = x
        /\ op.name \in {"PostIncrement", "PostDecrement"} =>
               /\ ret.kind = "object"
               /\ ret.val = old[x]

\* x++ from 1: the returned object holds 1 and x holds 2
C10_Witness ==
    /\ op.name = "PostIncrement"
    /\ old[op.lhs] = 1
    /\ ret.kind = "object"
    /\ ret.val = 1
    /\ m_value[op.lhs] = 2

\* ------------------------------------------------------------------------
\* Construction from text (specification SpecParse)
\* ------------------------------------------------------------------------

\* characters of the enumerated texts: binary, octal, decimal and hex
\* digits, the prefix letters in both cases, a non-digit, signs, a space
Chars == {"0", "1", "7", "9", "b", "B", "x", "X", "S", "-", "+", " "}

BinChars == {"0", "1", "2"}

SeqsUpTo(S, n) == UNION { [1..k -> S] : k \in 0..n }

BinTexts ==
    { p \o body : p \in {<<"0", "b">>, <<"0", "B">>},
                  body \in SeqsUpTo(BinChars, MaxBinLen) }

ExampleTexts ==
    { <<"1", "3", "7">>, <<"0", "1", "7">>, <<"0", "x", "6", "4">>,
      <<"0", "b", "1", "1", "1", "1">>, <<"7", "S", "E", "V", "E", "N">>,
      <<"S", "E", "V", "E", "N">>, <<"0", "b", "1", "0", "1", "2">>,
      <<"0", "b", "1", "1", "x">>, <<"0", "X", "6", "4">>,
      <<"0", "x", "1", "b", "g">>, <<"-", "1", "3", "7">>,
      <<" ", "1", "3", "7">>, <<"9", "9", "9", "9", "9">>,
      <<"-", "9", "9", "9", "9", "9">>, <<"0", "1", "7", "8">> }

InputTexts == SeqsUpTo(Chars, MaxLen) \cup BinTexts \cup ExampleTexts

\* the body shared by the two string constructors
Construct(name, s) ==
    /\ pc = "idle"
    /\ op = NoOp
    /\ LET r == StringCtor(T, s)
       IN  /\ m_value' = [m_value EXCEPT !["a"] = r.m_value]
           /\ pc' = IF r.escaped THEN "terminated" ELSE "idle"
    /\ str' = s
    /\ old' = m_value
    /\ op' = [name |-> name, lhs |-> "a", rhs |-> "a"]
    /\ ret' = NoRet
    /\ UNCHANGED <<T, toRadixLocals, extra>>

\* Integral(const std::string& value): object a is constructed from s
ConstructString(s) == Construct("StringCtor", s)

\* Integral(const char* value): delegates to the std::string constructor
ConstructCString(s) == Construct("CStringCtor", s)

InitParse ==
    /\ T \in NarrowTypes \cup {WideType}
    /\ InitCommon

NextParse ==
    \/ op = NoOp /\ \E s \in InputTexts : ConstructString(s)
    \/ op = NoOp /\ \E s \in InputTexts : ConstructCString(s)

SpecParse == InitParse /\ [][NextParse]_vars

Constructed == op.name \in {"StringCtor", "CStringCtor"}

\* the number a run of digit characters denotes in a base
RECURSIVE NumeralValue(_, _)
NumeralValue(digs, base) ==
    IF digs = <<>> THEN 0
    ELSE base * NumeralValue(SubSeq(digs, 1, Len(digs) - 1), base)
         + DigitVal(digs[Len(digs)])

\* the leading characters of a text that are digits of the base
DigitRun(text, base) ==
    LET k == CHOOSE j \in 0..Len(text) :
                 /\ \A i \in 1..j : DigitVal(text[i]) < base
                 /\ j = Len(text) \/ DigitVal(text[j + 1]) >= base
    IN  SubSeq(text, 1, k)

Drop(text, n) == SubSeq(text, n + 1, Len(text))

\* the base the first matching rule selects
RuleBase(s) ==
    IF Len(s) >= 2 /\ s[1] = "0" /\ s[2] \in {"b", "B"} THEN 2
    ELSE IF Len(s) >= 2 /\ s[1] = "0" /\ s[2] = "x" THEN 16
    ELSE IF Len(s) >= 1 /\ s[1] = "0" THEN 8
    ELSE 10

Text137 == <<"1", "3", "7">>
Text017 == <<"0", "1", "7">>
Text0x64 == <<"0", "x", "6", "4">>
Text0X64 == <<"0", "X", "6", "4">>
Text0b1111 == <<"0", "b", "1", "1", "1", "1">>
Text7SEVEN == <<"7", "S", "E", "V", "E", "N">>
TextSEVEN == <<"S", "E", "V", "E", "N">>

\* C1: the string constructor selects the base by the first matching rule:
\* "0b"/"0B" base 2, else lowercase "0x" base 16, else "0" base 8 (also for
\* "0X", which is not hex), else base 10; the stored value is the library
\* conversion of the text in that base.  "137" gives 137, "017" gives 15,
\* "0x64" gives 100 and "0b1111" gives 15.
C1_BaseSelection ==
    Constructed =>
        /\ RuleBase(str) = 2 =>
               m_value["a"] = (IF BitsetCtor(T, str).thrown THEN 0
                               ELSE ToT(T, BitsetCtor(T, str).val))
        /\ RuleBase(str) # 2 => m_value["a"] = NumGet(T, RuleBase(str), str)
        /\ T = WideType =>
               /\ str = Text137 => m_value["a"] = 137
               /\ str = Text017 => m_value["a"] = 15
               /\ str = Text0x64 => m_value["a"] = 100
               /\ str = Text0b1111 => m_value["a"] = 15
               /\ str = Text0X64 => m_value["a"] = 0

\* "0x64" was parsed as hexadecimal
C1_Witness ==
    /\ Constructed
    /\ T = WideType
    /\ str = Text0x64
    /\ m_value["a"] = 100

\* C2 as stated: for hexadecimal, octal and decimal texts the digits after
\* the prefix are consumed up to the first character that is not a digit
\* of the base, the value is the number they denote (read here only for
\* numbers T can hold), and 0 if there are none.
C2_PrefixParsing ==
    (Constructed /\ RuleBase(str) # 2) =>
        LET base == RuleBase(str)
            rest == IF base = 16 THEN Drop(str, 2) ELSE str
            n    == NumeralValue(DigitRun(rest, base), base)
        IN  n <= TMax(T) => m_value["a"] = n

\* the value of a signed number of the given magnitude stored into T
Stored(t, negative, mag) ==
    IF t.is_signed
    THEN IF negative
         THEN (IF mag > 0 - TMin(t) THEN TMin(t) ELSE 0 - mag)
         ELSE (IF mag > TMax(t) THEN TMax(t) ELSE mag)
    ELSE IF mag > TMax(t) THEN TMax(t)
         ELSE IF negative THEN (Pow(2, t.bits) - mag) % Pow(2, t.bits)
         ELSE mag

\* a text without its leading spaces
RECURSIVE Trimmed(_)
Trimmed(text) ==
    IF text # <<>> /\ text[1] = " " THEN Trimmed(Drop(text, 1)) ELSE text

\* C2 amended: a decimal text may start with spaces and one sign, which are
\* passed over; then the digits of the base are consumed up to the first
\* other character.  No digits give 0; otherwise the value is the number
\* the digits denote, negated after '-' (modulo 2^width for unsigned T),
\* and the nearest bound of T when the digits denote a number out of range.
C2_PrefixParsingAmended ==
    (Constructed /\ RuleBase(str) # 2) =>
        LET base   == RuleBase(str)
            body   == IF base = 10 THEN Trimmed(str) ELSE str
            signed == base = 10 /\ body # <<>> /\ body[1] \in {"+", "-"}
            rest   == IF base = 16 THEN Drop(str, 2)
                      ELSE IF signed THEN Drop(body, 1) ELSE body
            digs   == DigitRun(rest, base)
        IN  /\ digs = <<>> => m_value["a"] = 0
            /\ digs # <<>> =>
                   m_value["a"] = Stored(T, signed /\ body[1] = "-",
                                         NumeralValue(digs, base))
            /\ str = Text7SEVEN => m_value["a"] = 7
            /\ str = TextSEVEN => m_value["a"] = 0

\* "7SEVEN" was parsed up to its first non-digit
C2_Witness ==
    /\ Constructed
    /\ str = Text7SEVEN
    /\ m_value["a"] = 7

\* C3: binary parsing is all-or-nothing: when every character after the
\* prefix is '0' or '1' the value is the base-2 number they denote (read
\* here only for numbers T can hold), and when any character after the
\* prefix is something else the value is 0.
C3_BinaryAllOrNothing ==
    (Constructed /\ RuleBase(str) = 2) =>
        LET body == Drop(str, 2)
        IN  IF \A i \in 1..Len(body) : body[i] \in {"0", "1"}
            THEN NumeralValue(body, 2) <= TMax(T) =>
                     m_value["a"] = NumeralValue(body, 2)
            ELSE m_value["a"] = 0

\* C4: string construction is total: for every text no exception leaves
\* the constructor and the object holds a value of T; a text without any
\* decimal digit, the empty text and a bare prefix give 0.
C4_ConstructionTotal ==
    Constructed =>
        /\ pc = "idle"
        /\ m_value["a"] \in TValues(T)
        /\ (\A i \in 1..Len(str) : DigitVal(str[i]) > 9) => m_value["a"] = 0
        /\ str \in {<<>>, <<"0">>, <<"0", "b">>, <<"0", "B">>, <<"0", "x">>}
               => m_value["a"] = 0

\* a binary text with an invalid character was constructed to 0
C4_Witness ==
    /\ Constructed
    /\ str = <<"0", "b", "2">>
    /\ pc = "idle"
    /\ m_value["a"] = 0

\* ------------------------------------------------------------------------
\* Radix conversion (specification SpecRadix)
\* ------------------------------------------------------------------------

\* the text operator<< writes for the ints popped off the stack, top first
RECURSIVE Drained(_)
Drained(stack) ==
    IF stack = <<>> THEN <<>>
    ELSE to_string(stack[Len(stack)])
         \o Drained(SubSeq(stack, 1, Len(stack) - 1))

\* return <std::string>.c_str() of a string destroyed at the return: the
\* caller's read through the pointer is undefined, it may find the
\* characters still in place or anything else
toRadixReturn(text) ==
    /\ result' = text
    /\ \E seen \in {text, Garbage} : ret' = RetCString(seen)
    /\ pc' = "idle"

\* toRadix(radix) up to the loop: the precondition branch, the two library
\* branches, or entry into the repeated-division loop
toRadixCall(r) ==
    /\ pc = "idle"
    /\ op = NoOp
    /\ op' = [name |-> "toRadix", lhs |-> "a", rhs |-> "a"]
    /\ old' = m_value
    /\ radix' = r
    /\ IF r = 0 \/ r > 16
       THEN /\ toRadixReturn(to_string(m_value["a"]))
            /\ UNCHANGED <<value, result_stack>>
       ELSE IF r = 16 \/ r = 8
            THEN /\ toRadixReturn(BaseText(T, m_value["a"], r))
                 /\ UNCHANGED <<value, result_stack>>
            ELSE /\ value' = m_value["a"]
                 /\ result_stack' = <<>>
                 /\ pc' = "divide"
                 /\ UNCHANGED <<result, ret>>
    /\ UNCHANGED <<T, m_value, str, extra>>

\* one iteration of while (value != 0): push value % radix, value /= radix.
\* Both are computed in std::size_t and the quotient is narrowed back to T;
\* a push the stack cannot allocate throws out of the noexcept function
toRadixDivide ==
    /\ pc = "divide"
    /\ value # 0
    /\ IF Len(result_stack) >= MaxStack
       THEN /\ pc' = "terminated"
            /\ UNCHANGED <<value, result_stack>>
       ELSE /\ result_stack' = Append(result_stack, ToSize(value) % radix)
            /\ value' = ToT(T, ToSize(value) \div radix)
            /\ pc' = "divide"
    /\ UNCHANGED <<T, m_value, str, op, ret, old, radix, result, extra>>

\* the loop exit: the stack is drained into result_buffer, the buffer is
\* extracted into result (left empty when nothing was written) and
\* result.c_str() is returned
toRadixFinish ==
    /\ pc = "divide"
    /\ value = 0
    /\ toRadixReturn(Drained(result_stack))
    /\ result_stack' = <<>>
    /\ UNCHANGED <<T, m_value, str, op, old, radix, value, extra>>

\* values of the wide T that are converted
WideSamples == {0, 1, 12, 21, 255, 4095, 0 - 1, 0 - 12}

InitRadix ==
    /\ T \in NarrowTypes \cup {WideType}
    /\ \E v \in (IF T = WideType THEN WideSamples ELSE TValues(T)) :
           m_value = [a |-> v, b |-> 0]
    /\ str = <<>>
    /\ pc = "idle"
    /\ op = NoOp
    /\ ret = NoRet
    /\ old = m_value
    /\ radix = 0
    /\ value = 0
    /\ result_stack = <<>>
    /\ result = <<>>
    /\ cin = <<>>
    /\ consumed = <<>>
    /\ origin = "none"

\* the radices of hex(), dec(), oct() and bin()
WrapperRadices == {16, 10, 8, 2}

\* the prefix under which the string constructor reads a numeral of the radix
RadixPrefix(r) ==
    IF r = 2 THEN <<"0", "b">>
    ELSE IF r = 8 THEN <<"0">>
    ELSE IF r = 16 THEN <<"0", "x">>
    ELSE <<>>

\* Integral<T> b{prefix + a.hex()} and likewise for dec(), oct() and bin():
\* the C-string a wrapper returned is read and an object is constructed
\* from it
ConstructFromRadix ==
    /\ pc = "idle"
    /\ op.name = "toRadix"
    /\ radix \in WrapperRadices
    /\ ret.kind = "cstring"
    /\ str' = RadixPrefix(radix) \o ret.text
    /\ m_value' = [m_value EXCEPT !["b"] = StringCtor(T, str').m_value]
    /\ op' = [name |-> "FromRadix", lhs |-> "b", rhs |-> "a"]
    /\ UNCHANGED <<T, pc, ret, old, toRadixLocals, extra>>

NextRadix ==
    \/ \E r \in 0..MaxRadix : toRadixCall(r)
    \/ toRadixDivide
    \/ toRadixFinish
    \/ ConstructFromRadix

SpecRadix == InitRadix /\ [][NextRadix]_vars

\* toRadix has returned
Returned == op.name = "toRadix" /\ pc = "idle"

\* C5: for every positive value and every radix in 2..16 the text toRadix
\* builds and returns is the standard positional numeral of the value in
\* that base: digits 0-9 then a-f, one character per digit position, most
\* significant first, no leading zeros and no prefix.
C5_PositionalNumeral ==
    (Returned /\ old["a"] > 0 /\ radix \in 2..16) =>
        /\ ret.kind = "cstring"
        /\ result = NatText(old["a"], radix)

\* C6: toRadix terminates and returns a string for every non-negative
\* value and every radix argument: the division loop pushes no more
\* digits than T has bits, and a call never ends in std::terminate.
C6_Terminates ==
    (op.name = "toRadix" /\ old["a"] >= 0) =>
        /\ pc # "terminated"
        /\ Len(result_stack) <= T.bits

\* ------------------------------------------------------------------------
\* Arithmetic operators (specification SpecArith)
\* ------------------------------------------------------------------------

Abs(x) == IF x < 0 THEN 0 - x ELSE x

\* the values a native operation of T can yield when its exact result is
\* x: x itself when T holds it, x modulo 2^bits for an unsigned T, and any
\* value of T for a signed T, whose overflow is undefined
Native(t, x) ==
    IF x \in TValues(t) THEN {x}
    ELSE IF t.is_signed THEN TValues(t) ELSE {x % Pow(2, t.bits)}

\* variant: the quotient rounded toward minus infinity
Quotient_floor(l, r) == l \div r

\* l / r of the language for r # 0: the quotient truncated toward zero
Quotient(l, r) ==
    IF (l < 0) = (r < 0) THEN Abs(l) \div Abs(r)
    ELSE 0 - (Abs(l) \div Abs(r))

\* lhs.m_value + rhs.m_value
operator_add(t, l, r) == Native(t, l + r)

\* lhs.m_value - rhs.m_value
operator_sub(t, l, r) == Native(t, l - r)

\* lhs.m_value * rhs.m_value
operator_mul(t, l, r) == Native(t, l * r)

\* lhs.m_value / rhs.m_value: undefined for a zero divisor
operator_div(t, l, r) ==
    IF r = 0 THEN TValues(t) ELSE Native(t, Quotient(l, r))

\* lhs.m_value % rhs.m_value: undefined for a zero divisor and when the
\* quotient is not representable
operator_mod(t, l, r) ==
    IF r = 0 \/ Quotient(l, r) \notin TValues(t) THEN TValues(t)
    ELSE {l - r * Quotient(l, r)}

\* a call of a binary arithmetic operator: a new object is returned, no
\* operand changes; a division by zero may also trap
Arithmetic(name, x, y, outcomes) ==
    /\ pc = "idle"
    /\ old' = m_value
    /\ op' = [name |-> name, lhs |-> x, rhs |-> y]
    /\ \/ /\ \E v \in outcomes : ret' = RetObject(v)
          /\ pc' = pc
       \/ /\ name \in {"/", "%"}
          /\ m_value[y] = 0
          /\ ret' = NoRet
          /\ pc' = "terminated"
    /\ UNCHANGED <<T, m_value, str, toRadixLocals, extra>>

Add(x, y) == Arithmetic("+", x, y, operator_add(T, m_value[x], m_value[y]))

Subtract(x, y) ==
    Arithmetic("-", x, y, operator_sub(T, m_value[x], m_value[y]))

Multiply(x, y) ==
    Arithmetic("*", x, y, operator_mul(T, m_value[x], m_value[y]))

Divide(x, y) == Arithmetic("/", x, y, operator_div(T, m_value[x], m_value[y]))

Modulo(x, y) == Arithmetic("%", x, y, operator_mod(T, m_value[x], m_value[y]))

\* two objects constructed with any two values of a narrow T
InitArith ==
    /\ T \in NarrowTypes
    /\ \E v \in TValues(T) : \E w \in TValues(T) :
           /\ m_value = [a |-> v, b |-> w]
           /\ old = [a |-> v, b |-> w]
    /\ str = <<>>
    /\ pc = "idle"
    /\ op = NoOp
    /\ ret = NoRet
    /\ radix = 0
    /\ value = 0
    /\ result_stack = <<>>
    /\ result = <<>>
    /\ cin = <<>>
    /\ consumed = <<>>
    /\ origin = "none"

\* one operator is applied to the two objects constructed
NextArith ==
    \/ op = NoOp /\ \E x \in Objects : \E y \in Objects : Add(x, y)
    \/ op = NoOp /\ \E x \in Objects : \E y \in Objects : Subtract(x, y)
    \/ op = NoOp /\ \E x \in Objects : \E y \in Objects : Multiply(x, y)
    \/ op = NoOp /\ \E x \in Objects : \E y \in Objects : Divide(x, y)
    \/ op = NoOp /\ \E x \in Objects : \E y \in Objects : Modulo(x, y)

SpecArith == InitArith /\ [][NextArith]_vars

\* C11: a+b, a-b, a*b, a/b and a%b (b non-zero for / and %) return a new
\* object holding the native result: the exact result when T can hold it,
\* the quotient truncated toward zero with a remainder of the dividend's
\* sign, the result modulo 2^width for unsigned T; a and b are unchanged.
C11_Arithmetic ==
    LET a     == m_value[op.lhs]
        b     == m_value[op.rhs]
        exact == IF op.name = "+" THEN a + b
                 ELSE IF op.name = "-" THEN a - b
                 ELSE a * b
    IN  (op.name \in {"+", "-", "*", "/", "%"} /\ pc = "idle") =>
            /\ m_value = old
            /\ ret.kind = "object"
            /\ ret.val \in TValues(T)
            /\ op.name \in {"+", "-", "*"} =>
                   /\ exact \in TValues(T) => ret.val = exact
                   /\ ~T.is_signed => ret.val = exact % Pow(2, T.bits)
            /\ (op.name = "/" /\ b # 0) =>
                   \A q \in TValues(T) :
                       (\E r \in TValues(T) :
                            /\ a = q * b + r
                            /\ Abs(r) < Abs(b)
                            /\ r * a >= 0)
                       => ret.val = q
            /\ (op.name = "%" /\ b # 0) =>
                   \A r \in TValues(T) :
                       (\E q \in TValues(T) :
                            /\ a = q * b + r
                            /\ Abs(r) < Abs(b)
                            /\ r * a >= 0)
                       => ret.val = r

\* -7 / 2 was evaluated and gave -3
C11_Witness ==
    /\ op.name = "/"
    /\ pc = "idle"
    /\ m_value[op.lhs] = 0 - 7
    /\ m_value[op.rhs] = 2
    /\ ret.kind = "object"
    /\ ret.val = 0 - 3

\* ------------------------------------------------------------------------
\* Stream extraction
\* ------------------------------------------------------------------------

\* variant: the token ends at the first character that is not a digit
RECURSIVE TokenEnd_digits(_, _)
TokenEnd_digits(s, i) ==
    IF i <= Len(s) /\ DigitVal(s[i]) < 10
    THEN TokenEnd_digits(s, i + 1) ELSE i

\* cin >> reciever for a std::string: the position after the last
\* character taken, which is the first space at or after i or the end
RECURSIVE TokenEnd(_, _)
TokenEnd(s, i) ==
    IF i <= Len(s) /\ s[i] # " " THEN TokenEnd(s, i + 1) ELSE i

RetStream == [NoRet EXCEPT !.kind = "stream"]

\* operator >>(std::istream& cin, Integral<T>& obj): a token is read into
\* the std::string reciever (left empty when the stream has no token) and
\* obj.m_value takes the value of Integral<T>{reciever}
Extract(x) ==
    /\ pc = "idle"
    /\ LET first    == SkipWs(cin, 1)
           last     == TokenEnd(cin, first)
           reciever == SubSeq(cin, first, last - 1)
       IN  /\ str' = reciever
           /\ consumed' = SubSeq(cin, 1, last - 1)
           /\ cin' = SubSeq(cin, last, Len(cin))
           /\ m_value' = [m_value EXCEPT ![x] = StringCtor(T, reciever).m_value]
    /\ old' = m_value
    /\ op' = [name |-> ">>", lhs |-> x, rhs |-> x]
    /\ ret' = RetStream
    /\ UNCHANGED <<T, pc, toRadixLocals, origin>>

\* ------------------------------------------------------------------------
\* Copies and assignment (specification SpecCopy)
\* ------------------------------------------------------------------------

\* variant: the values are exchanged, as by an assignment written with swap
checkAndAssign_swap(mv, this, carbon_copy) ==
    [mv EXCEPT ![this] = mv[carbon_copy], ![carbon_copy] = mv[this]]

\* checkAndAssign(carbon_copy): m_value of every object afterwards
checkAndAssign(mv, this, carbon_copy) ==
    IF this # carbon_copy
    THEN [mv EXCEPT ![this] = mv[carbon_copy]]
    ELSE mv

\* Integral(const Integral<T>& carbon_copy): x is constructed from y
CopyCtor(x, y) ==
    /\ pc = "idle"
    /\ x # y
    /\ old' = m_value
    /\ m_value' = [m_value EXCEPT ![x] = m_value[y]]
    /\ origin' = "copy"
    /\ op' = [name |-> "CopyCtor", lhs |-> x, rhs |-> y]
    /\ ret' = NoRet
    /\ UNCHANGED <<T, str, pc, toRadixLocals, cin, consumed>>

\* operator =(const Integral<T>& carbon_copy): x = y, also for x and y the
\* same object
Assign(x, y) ==
    /\ pc = "idle"
    /\ old' = m_value
    /\ m_value' = checkAndAssign(m_value, x, y)
    /\ origin' = IF x # y THEN "assign" ELSE origin
    /\ op' = [name |-> "=", lhs |-> x, rhs |-> y]
    /\ ret' = RetRef(x)
    /\ UNCHANGED <<T, str, pc, toRadixLocals, cin, consumed>>

\* operator =(const CompatibleType ct): x = v for a number v
AssignValue(x, v) ==
    /\ pc = "idle"
    /\ old' = m_value
    /\ m_value' = [m_value EXCEPT ![x] = ToT(T, v)]
    /\ op' = [name |-> "=value", lhs |-> x, rhs |-> x]
    /\ ret' = RetRef(x)
    /\ UNCHANGED <<T, str, pc, toRadixLocals, extra>>

\* operator =(Integral<T>&& carbon_copy): y takes the object a postfix
\* operator on the other object has just returned, as in y = x++
TakeSnapshot(y) ==
    /\ pc = "idle"
    /\ op.name \in {"PostIncrement", "PostDecrement"}
    /\ ret.kind = "object"
    /\ y # op.lhs
    /\ old' = m_value
    /\ m_value' = [m_value EXCEPT ![y] = ret.val]
    /\ origin' = "snapshot"
    /\ op' = [name |-> "=snapshot", lhs |-> y, rhs |-> op.lhs]
    /\ ret' = RetRef(y)
    /\ UNCHANGED <<T, str, pc, toRadixLocals, cin, consumed>>

\* numbers assigned to an object
AssignSamples == {0 - 1, 0, 1, 7}

\* the text on the stream the objects are extracted from
CopyStream == <<"7", " ", "-", "1">>

InitCopy ==
    /\ T \in NarrowTypes
    /\ m_value = [o \in Objects |-> 0]
    /\ str = <<>>
    /\ pc = "idle"
    /\ op = NoOp
    /\ ret = NoRet
    /\ old = [o \in Objects |-> 0]
    /\ radix = 0
    /\ value = 0
    /\ result_stack = <<>>
    /\ result = <<>>
    /\ cin = CopyStream
    /\ consumed = <<>>
    /\ origin = "none"

NextCopy ==
    \/ \E x \in Objects : \E y \in Objects : CopyCtor(x, y)
    \/ \E x \in Objects : \E y \in Objects : Assign(x, y)
    \/ \E x \in Objects : \E v \in AssignSamples : AssignValue(x, v)
    \/ \E y \in Objects : TakeSnapshot(y)
    \/ \E x \in Objects : PreIncrement(x)
    \/ \E x \in Objects : PostIncrement(x)
    \/ \E x \in Objects : PreDecrement(x)
    \/ \E x \in Objects : PostDecrement(x)
    \/ \E x \in Objects : Extract(x)

SpecCopy == InitCopy /\ [][NextCopy]_vars

\* the object an operation on x does not name
Other(x) == CHOOSE o \in Objects : o # x

\* C12: copies are independent values: a copy construction, an assignment
\* or a postfix snapshot gives the target the source's value and leaves the
\* source alone; every later mutation of one object (++, --, assignment of
\* a number, stream extraction) leaves the other object's value unchanged;
\* assigning an object to itself changes nothing.
C12_CopiesIndependent ==
    /\ op.name \in {"PreIncrement", "PostIncrement", "PreDecrement",
                    "PostDecrement", "=value", ">>"} =>
           m_value[Other(op.lhs)] = old[Other(op.lhs)]
    /\ op.name \in {"CopyCtor", "="} =>
           /\ m_value[op.lhs] = old[op.rhs]
           /\ m_value[op.rhs] = old[op.rhs]
    /\ (op.name = "=" /\ op.lhs = op.rhs) => m_value = old
    /\ op.name = "=snapshot" =>
           /\ m_value[op.rhs] = old[op.rhs]
           /\ origin = "snapshot"

\* b was copy-constructed from a, then a was incremented and b kept the
\* value both had
C12_Witness ==
    /\ origin = "copy"
    /\ op.name = "PreIncrement"
    /\ op.lhs = "a"
    /\ old["a"] = old["b"]
    /\ old["a"] = 7 \/ old["a"] = 3
    /\ m_value["b"] = old["b"]
    /\ m_value["a"] # m_value["b"]

\* ------------------------------------------------------------------------
\* Further properties of the radix conversion (specification SpecRadix)
\* ------------------------------------------------------------------------

\* variant: the text of the magnitude, without the sign
operator_string_magnitude(v) == to_string(Abs(v))

\* operator std::string(): std::to_string(m_value)
operator_string(v) == to_string(v)

\* radices of the repeated-division branch
DivisionRadices == (2..15) \ {8}

\* C13: toRadix(radix) with radix 0 or above 16 never fails and returns
\* exactly the decimal text of the value, the text of the object's string
\* conversion, for every value of T including zero and negative values.
C13_DecimalFallback ==
    (Returned /\ (radix = 0 \/ radix > 16)) =>
        /\ ret.kind = "cstring"
        /\ ret.text = operator_string(old["a"])

\* the text the precondition branch builds before it returns is the
\* decimal text of the value
C13_BuiltText ==
    (Returned /\ (radix = 0 \/ radix > 16)) =>
        result = operator_string(old["a"])

\* C14: when the value is zero, toRadix(radix) for a radix of the
\* repeated-division branch returns the empty string, not "0".
C14_ZeroIsEmpty ==
    (Returned /\ old["a"] = 0 /\ radix \in DivisionRadices) =>
        /\ ret.kind = "cstring"
        /\ ret.text = <<>>

\* the text the repeated-division branch builds for zero is empty
C14_BuiltText ==
    (Returned /\ old["a"] = 0 /\ radix \in DivisionRadices) =>
        result = <<>>

\* C18: for a signed T narrower than std::size_t, toRadix terminates for
\* every negative value and every radix of the repeated-division branch:
\* the working value eventually becomes zero, so the loop never comes back
\* to the value it started from and the call never ends in std::terminate.
C18_NegativeTerminates ==
    (/\ op.name = "toRadix"
     /\ T.is_signed
     /\ T.bits < SizeBits
     /\ old["a"] < 0
     /\ radix \in DivisionRadices) =>
        /\ pc # "terminated"
        /\ ~(pc = "divide" /\ result_stack # <<>> /\ value = old["a"])

\* C20: the radix wrappers and the prefixed string parser are inverse on
\* non-negative values: an object constructed from "0b" followed by bin(),
\* "0" followed by oct(), "0x" followed by hex(), or from dec() of an
\* object holding v >= 0 holds v.
C20_WrappersInvertParser ==
    (op.name = "FromRadix" /\ old["a"] >= 0) => m_value["b"] = old["a"]

\* the texts the wrappers build, read under their prefix, give back the
\* non-negative value
C20_BuiltText ==
    (Returned /\ radix \in WrapperRadices /\ old["a"] >= 0) =>
        StringCtor(T, RadixPrefix(radix) \o result).m_value = old["a"]

\* ------------------------------------------------------------------------
\* Successive extractions from a stream (specification SpecStream)
\* ------------------------------------------------------------------------

MaxStreamLen == 4

\* characters of the streams read
StreamChars == {"0", "7", "x", "S", " ", "-"}

\* the stream of the worked example: 017 0x64 7SEVEN 8
ExampleStream ==
    Text017 \o <<" ">> \o Text0x64 \o <<" ">> \o Text7SEVEN \o <<" ", "8">>

StreamTexts == SeqsUpTo(StreamChars, MaxStreamLen) \cup {ExampleStream}

InitStream ==
    /\ T \in NarrowTypes \cup {WideType}
    /\ cin \in StreamTexts
    /\ m_value = [o \in Objects |-> 0]
    /\ str = <<>>
    /\ pc = "idle"
    /\ op = NoOp
    /\ ret = NoRet
    /\ old = [o \in Objects |-> 0]
    /\ radix = 0
    /\ value = 0
    /\ result_stack = <<>>
    /\ result = <<>>
    /\ consumed = <<>>
    /\ origin = "none"

NextStream == \E x \in Objects : Extract(x)

SpecStream == InitStream /\ [][NextStream]_vars

\* the characters of a text before its first space
Token(text) ==
    LET k == CHOOSE j \in 0..Len(text) :
                 /\ \A i \in 1..j : text[i] # " "
                 /\ j = Len(text) \/ text[j + 1] = " "
    IN  SubSeq(text, 1, k)

\* the stream as it was before the last extraction
StreamBefore == consumed \o cin

NumericRun(body) ==
    LET signed == body # <<>> /\ body[1] \in {"+", "-"}
        digs   == DigitRun(IF signed THEN Drop(body, 1) ELSE body, 10)
    IN  IF signed THEN <<body[1]>> \o digs ELSE digs

\* C16: an extraction skips initial whitespace and stops consuming the
\* stream at the first non-numerical character: that character and all
\* after it remain in the stream for the next read.
C16_StopsAtNonNumerical ==
    op.name = ">>" =>
        LET body == Trimmed(StreamBefore)
        IN  cin = Drop(body, Len(NumericRun(body)))

\* ------------------------------------------------------------------------
\* Decimal text round trip (specification SpecRoundTrip)
\* ------------------------------------------------------------------------

\* operator <<(std::ostream& cout, const Integral<T>& obj): cout <<
\* obj.m_value appends the decimal text of the value to the stream
Insert(x) ==
    /\ pc = "idle"
    /\ op = NoOp
    /\ cin' = cin \o to_string(m_value[x])
    /\ old' = m_value
    /\ op' = [name |-> "<<", lhs |-> x, rhs |-> x]
    /\ ret' = RetStream
    /\ UNCHANGED <<T, m_value, str, pc, toRadixLocals, consumed, origin>>

\* std::string text = x: the conversion operator returns the decimal text
ConvertToString(x) ==
    /\ pc = "idle"
    /\ op = NoOp
    /\ old' = m_value
    /\ op' = [name |-> "string", lhs |-> x, rhs |-> x]
    /\ ret' = [NoRet EXCEPT !.kind = "string",
                            !.text = operator_string(m_value[x])]
    /\ UNCHANGED <<T, m_value, str, pc, toRadixLocals, extra>>

\* Integral<T> y{text} for the text the other object was converted to
ConstructFromString(y) ==
    /\ pc = "idle"
    /\ op.name = "string"
    /\ y # op.lhs
    /\ str' = ret.text
    /\ m_value' = [m_value EXCEPT ![y] = StringCtor(T, ret.text).m_value]
    /\ old' = m_value
    /\ op' = [name |-> "FromString", lhs |-> y, rhs |-> op.lhs]
    /\ ret' = NoRet
    /\ UNCHANGED <<T, pc, toRadixLocals, extra>>

\* stream >> y after the other object was written to the stream
ExtractWritten(y) ==
    /\ op.name = "<<"
    /\ y # op.lhs
    /\ Extract(y)

\* values of the wide T that make the round trip
RoundTripSamples ==
    {TMin(WideType), 0 - 100, 0 - 10, 0 - 1, 0, 1, 9, 10, 100, 137,
     TMax(WideType)}

InitRoundTrip ==
    /\ T \in NarrowTypes \cup {WideType}
    /\ \E v \in (IF T = WideType THEN RoundTripSamples ELSE TValues(T)) :
           /\ m_value = [a |-> v, b |-> 0]
           /\ old = [a |-> v, b |-> 0]
    /\ str = <<>>
    /\ pc = "idle"
    /\ op = NoOp
    /\ ret = NoRet
    /\ radix = 0
    /\ value = 0
    /\ result_stack = <<>>
    /\ result = <<>>
    /\ cin = <<>>
    /\ consumed = <<>>
    /\ origin = "none"

NextRoundTrip ==
    \/ \E x \in Objects : Insert(x)
    \/ \E x \in Objects : ConvertToString(x)
    \/ \E y \in Objects : ConstructFromString(y)
    \/ \E y \in Objects : ExtractWritten(y)

SpecRoundTrip == InitRoundTrip /\ [][NextRoundTrip]_vars

\* C19: decimal text round-trips: for every value v of T, zero and negative
\* values included, an object written to a stream and extracted into
\* another object, or converted to a string from which another object is
\* constructed, gives an object holding v, and the first object keeps v.
C19_DecimalRoundTrip ==
    op.name \in {">>", "FromString"} =>
        /\ m_value[op.lhs] = old[Other(op.lhs)]
        /\ m_value[Other(op.lhs)] = old[Other(op.lhs)]

\* -7 was converted to the string "-7" and the object constructed from it
\* holds -7
C19_Witness ==
    /\ op.name = "FromString"
    /\ op.lhs = "b"
    /\ str = <<"-", "7">>
    /\ old["a"] = 0 - 7
    /\ m_value["b"] = 0 - 7

\* ------------------------------------------------------------------------
\* User defined literals (specification SpecLiteral)
\* ------------------------------------------------------------------------

MaxLiteral == 300

\* widths of unsigned char, short, int, long and long long (LP64)
UCharBits == 8
UShortBits == 16
UIntBits == 32
ULongBits == 64
ULongLongBits == 64

LiteralSuffixes == {"_cspiuc", "_cspius", "_cspiui", "_cspiul", "_cspiull"}

\* the width of the T of the Integral<T> a literal operator returns
LiteralBits(suffix) ==
    CASE suffix = "_cspiuc" -> UCharBits
      [] suffix = "_cspius" -> UShortBits
      [] suffix = "_cspiui" -> UIntBits
      [] suffix = "_cspiul" -> ULongBits
      [] suffix = "_cspiull" -> ULongLongBits

LiteralType(suffix) == [is_signed |-> FALSE, bits |-> LiteralBits(suffix)]

\* the numerals written before a suffix; all are below 2^UIntBits
LiteralValues == (0..MaxLiteral) \cup {321, 65535, 65536, 65601, 70000}

\* variant: a value the target cannot hold becomes the target's maximum
static_cast_T_saturating(t, ct) ==
    IF t.bits >= UIntBits THEN ct
    ELSE IF ct > Pow(2, t.bits) - 1 THEN Pow(2, t.bits) - 1 ELSE ct

\* static_cast<T>(ct) of an unsigned long long ct to an unsigned T: ct
\* modulo 2^bits, which for a ct below 2^UIntBits and a T of at least
\* UIntBits bits is ct
static_cast_T(t, ct) ==
    IF t.bits >= UIntBits THEN ct ELSE ct % Pow(2, t.bits)

\* auto a = <n><suffix>: the literal operator returns Integral<T>{value},
\* which is Integral(const T) for unsigned long long and the converting
\* constructor for the other types
Literal(suffix, n) ==
    /\ pc = "idle"
    /\ op = NoOp
    /\ T = LiteralType(suffix)
    /\ str' = to_string(n)
    /\ old' = m_value
    /\ LET v == IF suffix = "_cspiull" THEN n ELSE static_cast_T(T, n)
       IN  /\ m_value' = [m_value EXCEPT !["a"] = v]
           /\ ret' = RetObject(v)
    /\ op' = [name |-> suffix, lhs |-> "a", rhs |-> "a"]
    /\ UNCHANGED <<T, pc, toRadixLocals, extra>>

InitLiteral ==
    /\ T \in { LiteralType(suffix) : suffix \in LiteralSuffixes }
    /\ InitCommon

NextLiteral ==
    \E suffix \in LiteralSuffixes : \E n \in LiteralValues :
        Literal(suffix, n)

SpecLiteral == InitLiteral /\ [][NextLiteral]_vars

\* C17: each literal suffix applied to a non-negative numeral n gives an
\* object of Integral<unsigned char>, <unsigned short>, <unsigned int>,
\* <unsigned long>, <unsigned long long> respectively whose value is n
\* modulo 2^width of the target: 65 gives 65 for unsigned char, a literal
\* that does not fit keeps its low-order bits.
C17_LiteralNarrowing ==
    op.name \in LiteralSuffixes =>
        LET n     == NumeralValue(str, 10)
            width == LiteralBits(op.name)
            v     == m_value["a"]
        IN  /\ T = [is_signed |-> FALSE, bits |-> width]
            /\ ret.kind = "object"
            /\ ret.val = v
            /\ v >= 0
            /\ v <= n
            /\ width >= UIntBits => v = n
            /\ width < UIntBits =>
                   /\ v < Pow(2, width)
                   /\ (n - v) % Pow(2, width) = 0
            /\ (op.name = "_cspiuc" /\ n = 65) => v = 65
            /\ (op.name = "_cspiuc" /\ n = 321) => v = 65
            /\ (op.name = "_cspius" /\ n = 65601) => v = 65
            /\ (op.name = "_cspiui" /\ n = 65601) => v = 65601

\* 321_cspiuc kept the low-order eight bits of 321
C17_Witness ==
    /\ op.name = "_cspiuc"
    /\ T = [is_signed |-> FALSE, bits |-> 8]
    /\ str = <<"3", "2", "1">>
    /\ m_value["a"] = 65

====
